---- MODULE Spec2Model ----
(***************************************************************************)
(* A model of the esvg document tree (src/lib.rs, src/value.rs), its two   *)
(* serializers and its parser (src/read.rs).                               *)
(*                                                                         *)
(* Strings are sequences of one-character strings, so that quoting,        *)
(* splitting, sorting, serialization and tokenization are computed         *)
(* character by character.                                                 *)
(***************************************************************************)
EXTENDS Integers, Sequences, FiniteSets, TLC

VARIABLES els, last, calls, input, pos, opened, stack, result, pstatus, ret, lastEv, nStart, nEnd

vars == <<els, last, calls, input, pos, opened, stack, result, pstatus, ret, lastEv, nStart, nEnd>>

apiVars == <<els, last, calls>>

parserVars == <<input, pos, opened, stack, result, pstatus, ret, lastEv, nStart, nEnd>>

(***************************************************************************)
(* Bounds of the model.                                                    *)
(***************************************************************************)
MaxSize == 4

MaxTokens == 4

MaxClauses == 3

MaxColourLen == 7

Handles == {1, 2}

(***************************************************************************)
(* Characters and strings.                                                 *)
(***************************************************************************)
Whitespace == {" ", "\t", "\n", "\r"}

CharCode(c) ==
  CASE c = "\t" -> 9   [] c = "\n" -> 10  [] c = "\r" -> 13  [] c = " " -> 32
    [] c = "!" -> 33   [] c = "\"" -> 34  [] c = "#" -> 35   [] c = "&" -> 38
    [] c = "'" -> 39   [] c = "-" -> 45   [] c = "." -> 46   [] c = "/" -> 47
    [] c = "0" -> 48   [] c = "1" -> 49   [] c = "2" -> 50   [] c = "3" -> 51
    [] c = ":" -> 58   [] c = ";" -> 59   [] c = "<" -> 60   [] c = "=" -> 61
    [] c = ">" -> 62   [] c = "?" -> 63
    [] c = "a" -> 97   [] c = "b" -> 98   [] c = "c" -> 99   [] c = "e" -> 101
    [] c = "g" -> 103  [] c = "k" -> 107  [] c = "l" -> 108  [] c = "m" -> 109
    [] c = "o" -> 111  [] c = "p" -> 112  [] c = "q" -> 113  [] c = "s" -> 115
    [] c = "t" -> 116  [] c = "u" -> 117  [] c = "v" -> 118  [] c = "x" -> 120
    [] c = "y" -> 121
    [] OTHER -> 127

\* Ord::cmp on str: byte-wise lexicographic order, a proper prefix sorts first.
RECURSIVE StrLess(_, _)
StrLess(a, b) ==
  IF b = <<>> THEN FALSE
  ELSE IF a = <<>> THEN TRUE
  ELSE IF CharCode(Head(a)) < CharCode(Head(b)) THEN TRUE
  ELSE IF CharCode(Head(a)) > CharCode(Head(b)) THEN FALSE
  ELSE StrLess(Tail(a), Tail(b))

Contains(s, c) == \E i \in 1..Len(s) : s[i] = c

\* The least index in I, 0 if I is empty.
First(I) == IF I = {} THEN 0 ELSE CHOOSE i \in I : \A j \in I : i <= j

\* Index of the first occurrence of c in s at or after position from, 0 if none.
IndexFrom(s, c, from) == First({i \in from..Len(s) : s[i] = c})

Repeat(c, n) == [i \in 1..n |-> c]

Some(v) == [some |-> TRUE, val |-> v]

None == [some |-> FALSE]

Ok(v) == [ok |-> TRUE, val |-> v]

Err(e) == [ok |-> FALSE, err |-> e]

(***************************************************************************)
(* Value (src/value.rs).  A Value owns its text; to_string_bare returns it.*)
(***************************************************************************)
to_string_bare(v) == v

\* A rendering that always wraps the text in double quotes.
Value_fmt_double(v) == <<"\"">> \o v \o <<"\"">>

Value_fmt(v) ==
  IF Contains(v, "\"") THEN <<"'">> \o v \o <<"'">>
  ELSE <<"\"">> \o v \o <<"\"">>

(***************************************************************************)
(* Node and Element (src/lib.rs).                                          *)
(***************************************************************************)
TextNode(s) == [kind |-> "Text", text |-> s]

CommentNode(s) == [kind |-> "Comment", text |-> s]

ElementNode(e) == [kind |-> "Element", element |-> e]

new(name) == [name |-> name, children |-> <<>>, attributes |-> <<>>]

\* An insert that keeps the value a key already has.
insert_if_absent(m, k, v) == [x \in (DOMAIN m) \cup {k} |-> IF x \in DOMAIN m THEN m[x] ELSE v]

\* HashMap::insert: insert or overwrite.
insert(m, k, v) == [x \in (DOMAIN m) \cup {k} |-> IF x = k THEN v ELSE m[x]]

\* #[derive(Clone)]: a deep copy of name, children and attributes.
RECURSIVE clone(_)
clone(e) ==
  [name |-> e.name,
   children |-> [i \in 1..Len(e.children) |->
                   IF e.children[i].kind = "Element"
                   THEN ElementNode(clone(e.children[i].element))
                   ELSE e.children[i]],
   attributes |-> [k \in DOMAIN e.attributes |-> e.attributes[k]]]

as_node(e) == ElementNode(clone(e))

\* A child put in front of the existing children.
add_in_front(self, child) == [self EXCEPT !.children = <<ElementNode(clone(child))>> \o @]

add(self, child) == [self EXCEPT !.children = Append(@, ElementNode(clone(child)))]

add_node(self, child) == [self EXCEPT !.children = Append(@, child)]

set(self, key, value) == [self EXCEPT !.attributes = insert(@, key, value)]

get(self, key) ==
  IF key \in DOMAIN self.attributes
  THEN Some(to_string_bare(self.attributes[key]))
  ELSE None

STYLE == <<"s", "t", "y", "l", "e">>

\* A clause put in front of the existing style.
add_style_in_front(self, key, value) ==
  LET new_style ==
        IF STYLE \in DOMAIN self.attributes
        THEN key \o <<":">> \o to_string_bare(value) \o <<";">>
               \o to_string_bare(self.attributes[STYLE])
        ELSE key \o <<":">> \o to_string_bare(value)
  IN [self EXCEPT !.attributes = insert(@, STYLE, new_style)]

add_style(self, key, value) ==
  LET new_style ==
        IF STYLE \in DOMAIN self.attributes
        THEN to_string_bare(self.attributes[STYLE]) \o <<";">> \o key \o <<":">>
               \o to_string_bare(value)
        ELSE key \o <<":">> \o to_string_bare(value)
  IN [self EXCEPT !.attributes = insert(@, STYLE, new_style)]

\* str::split(';'): the pieces between separators, n + 1 pieces for n separators.
RECURSIVE split(_, _)
split(s, sep) ==
  LET i == IndexFrom(s, sep, 1)
  IN IF i = 0 THEN <<s>>
     ELSE <<SubSeq(s, 1, i - 1)>> \o split(SubSeq(s, i + 1, Len(s)), sep)

\* str::split_once(':'): the text before and after the first separator.
split_once(s, sep) ==
  LET i == IndexFrom(s, sep, 1)
  IN IF i = 0 THEN None
     ELSE Some(<<SubSeq(s, 1, i - 1), SubSeq(s, i + 1, Len(s))>>)

\* A loop that passes over a clause without ':' instead of failing.
RECURSIVE style_map_loop_skipping(_, _)
style_map_loop_skipping(clauses, acc) ==
  IF clauses = <<>> THEN Ok(acc)
  ELSE LET kv == split_once(Head(clauses), ":")
       IN IF kv.some
          THEN style_map_loop_skipping(Tail(clauses), insert(acc, kv.val[1], kv.val[2]))
          ELSE style_map_loop_skipping(Tail(clauses), acc)

RECURSIVE style_map_loop(_, _)
style_map_loop(clauses, acc) ==
  IF clauses = <<>> THEN Ok(acc)
  ELSE LET kv == split_once(Head(clauses), ":")
       IN IF kv.some
          THEN style_map_loop(Tail(clauses), insert(acc, kv.val[1], kv.val[2]))
          ELSE Err("MalformedStyle")

style_map(self) ==
  IF STYLE \in DOMAIN self.attributes
  THEN style_map_loop(split(to_string_bare(self.attributes[STYLE]), ";"), <<>>)
  ELSE Ok(<<>>)

\* A duplicate that keeps the children.
shallow_clone_deep(self) == clone(self)

shallow_clone(self) ==
  [new(self.name) EXCEPT !.attributes = [k \in DOMAIN self.attributes |-> self.attributes[k]]]

(***************************************************************************)
(* Serializer.  HashMap iteration order is unspecified: ord is the order   *)
(* in which one call happens to visit the keys; the code sorts the         *)
(* collected pairs by key before emitting them.                            *)
(***************************************************************************)
iter(m, ord) == SelectSeq(ord, LAMBDA k : k \in DOMAIN m)

\* Insert key k into the ascending sequence s, after any equal keys (stable).
RECURSIVE SortedInsert(_, _)
SortedInsert(s, k) ==
  IF s = <<>> THEN <<k>>
  ELSE IF StrLess(k, Head(s)) THEN <<k>> \o s
  ELSE <<Head(s)>> \o SortedInsert(Tail(s), k)

\* The collected pairs emitted in the order the map visited them.
sort_by_key_omitted(s) == s

RECURSIVE sort_by_key(_)
sort_by_key(s) ==
  IF s = <<>> THEN <<>>
  ELSE SortedInsert(sort_by_key(SubSeq(s, 1, Len(s) - 1)), s[Len(s)])

RECURSIVE fmt_attributes(_, _)
fmt_attributes(m, keys) ==
  IF keys = <<>> THEN <<>>
  ELSE <<" ">> \o Head(keys) \o <<"=">> \o Value_fmt(m[Head(keys)])
         \o fmt_attributes(m, Tail(keys))

RECURSIVE Element_fmt(_, _)
RECURSIVE Node_fmt(_, _)
RECURSIVE fmt_children(_, _)
RECURSIVE fmt_children_joined(_, _)

Node_fmt(n, ord) ==
  CASE n.kind = "Text" -> n.text
    [] n.kind = "Element" -> Element_fmt(n.element, ord)
    [] n.kind = "Comment" -> <<"<", "!", "-", "-", " ">> \o n.text \o <<" ", "-", "-", ">">>

\* Children separated by line breaks, the last one not terminated.
fmt_children_joined(children, ord) ==
  IF children = <<>> THEN <<>>
  ELSE IF Len(children) = 1 THEN Node_fmt(Head(children), ord)
  ELSE Node_fmt(Head(children), ord) \o <<"\n">> \o fmt_children_joined(Tail(children), ord)

fmt_children(children, ord) ==
  IF children = <<>> THEN <<>>
  ELSE Node_fmt(Head(children), ord) \o <<"\n">> \o fmt_children(Tail(children), ord)

Element_fmt(e, ord) ==
  <<"<">> \o e.name
    \o fmt_attributes(e.attributes, sort_by_key(iter(e.attributes, ord)))
    \o (IF e.children # <<>>
        THEN <<">", "\n">> \o fmt_children(e.children, ord)
               \o <<"<", "/">> \o e.name \o <<">">>
        ELSE <<" ", "/", ">">>)

SVG == <<"s", "v", "g">>

RECURSIVE pretty_fmt_internal(_, _, _, _)
RECURSIVE pretty_children(_, _, _, _)

pretty_children(children, buff, depth, ord) ==
  IF children = <<>> THEN buff
  ELSE LET child == Head(children)
           b == CASE child.kind = "Text" -> buff \o child.text
                  [] child.kind = "Element" ->
                       pretty_fmt_internal(child.element, buff, depth + 1, ord)
                  [] child.kind = "Comment" ->
                       buff \o <<"<", "!", "-", "-", " ">> \o child.text \o <<" ", "-", "-", ">">>
       IN pretty_children(Tail(children), b, depth, ord)

pretty_fmt_internal(e, buff, depth, ord) ==
  LET b1 == buff \o Repeat("\t", depth) \o <<"<">> \o e.name
      b2 == b1 \o fmt_attributes(e.attributes, sort_by_key(iter(e.attributes, ord)))
  IN IF e.children # <<>>
     THEN pretty_children(e.children, b2 \o <<">", "\n">>, depth, ord)
            \o Repeat("\t", depth) \o <<"<", "/">> \o e.name \o <<">", "\n">>
     ELSE b2 \o <<" ", "/", ">", "\n">>

\* The literal declaration line written before a root named svg.
XML_DECL ==
  <<
     "<", "?", "x", "m", "l", " ", "v", "e", "r", "s", "i", "o", "n", "=",
     "\"", "1", ".", "0", "\"", " ", "e", "n", "c", "o", "d", "i", "n", "g",
     "=", "\"", "U", "T", "F", "-", "8", "\"", "?", ">", "\n"
  >>

\* The literal doctype line written before a root named svg.
DOCTYPE ==
  <<
     "<", "!", "D", "O", "C", "T", "Y", "P", "E", " ", "s", "v", "g", " ",
     "P", "U", "B", "L", "I", "C", " ", "\"", "-", "/", "/", "W", "3", "C",
     "/", "/", "D", "T", "D", " ", "S", "V", "G", " ", "1", ".", "0", "/",
     "/", "E", "N", "\"", " ", "\"", "h", "t", "t", "p", ":", "/", "/", "w",
     "w", "w", ".", "w", "3", ".", "o", "r", "g", "/", "T", "R", "/", "2",
     "0", "0", "1", "/", "R", "E", "C", "-", "S", "V", "G", "-", "2", "0",
     "0", "1", "0", "9", "0", "4", "/", "D", "T", "D", "/", "s", "v", "g",
     "1", "0", ".", "d", "t", "d", "\"", ">", "\n"
  >>

\* A pretty form that writes the preamble whatever the root is named.
to_pretty_string_unconditional(e, ord) == pretty_fmt_internal(e, XML_DECL \o DOCTYPE, 0, ord)

to_pretty_string(e, ord) ==
  LET buff == IF e.name = SVG THEN XML_DECL \o DOCTYPE ELSE <<>>
  IN pretty_fmt_internal(e, buff, 0, ord)

(***************************************************************************)
(* The event reader parse_string drives: quick_xml's Reader over a str,    *)
(* with trim_text(true) and its default check of end-tag names.  pos is    *)
(* the index of the next unread character, opened the names of the start   *)
(* tags the reader has seen and not yet matched.                           *)
(***************************************************************************)
\* Index of the first character at or after p that is no whitespace,
\* Len(s) + 1 if none.
skip_whitespace(s, p) ==
  LET i == First({j \in p..Len(s) : s[j] \notin Whitespace})
  IN IF i = 0 THEN (IF p > Len(s) THEN p ELSE Len(s) + 1) ELSE i

\* s without its trailing whitespace.
trim_end(s) ==
  LET I == {j \in 1..Len(s) : s[j] \notin Whitespace}
  IN IF I = {} THEN <<>> ELSE SubSeq(s, 1, CHOOSE i \in I : \A j \in I : j <= i)

\* Index of the first whitespace character of s at or after p, Len(s) + 1 if none.
IndexOfWhitespace(s, p) ==
  LET i == First({j \in p..Len(s) : s[j] \in Whitespace})
  IN IF i = 0 THEN (IF p > Len(s) THEN p ELSE Len(s) + 1) ELSE i

StartsWithAt(s, p, prefix) ==
  /\ p + Len(prefix) - 1 <= Len(s)
  /\ SubSeq(s, p, p + Len(prefix) - 1) = prefix

\* Index of the '>' that ends the comment opened before p, 0 if none.
IndexOfCommentEnd(s, p) ==
  LET i == First({j \in p..Len(s) : StartsWithAt(s, j, <<"-", "-", ">">>)})
  IN IF i = 0 THEN 0 ELSE i + 2

\* Index of the '>' that balances the '<' of a doctype, 0 if none.
IndexOfBalancedGt(s, p) ==
  First({i \in p..Len(s) :
           /\ s[i] = ">"
           /\ Cardinality({j \in p..(i - 1) : s[j] = "<"})
                = Cardinality({j \in p..(i - 1) : s[j] = ">"})})

\* Index of the first '>' outside a quoted attribute value, 0 if none.
RECURSIVE IndexOfTagEnd(_, _, _)
IndexOfTagEnd(s, p, quote) ==
  IF p > Len(s) THEN 0
  ELSE IF quote # "" THEN IndexOfTagEnd(s, p + 1, IF s[p] = quote THEN "" ELSE quote)
  ELSE IF s[p] = ">" THEN p
  ELSE IF s[p] \in {"\"", "'"} THEN IndexOfTagEnd(s, p + 1, s[p])
  ELSE IndexOfTagEnd(s, p + 1, "")

ReaderError(p, opn) == [kind |-> "Error", pos |-> p, opened |-> opn]

\* The markup that starts after the '<' at p - 1.
read_markup(s, p, opn) ==
  IF p > Len(s) THEN ReaderError(p, opn)
  ELSE IF s[p] = "/" THEN
    LET gt == IndexFrom(s, ">", p)
        name == trim_end(SubSeq(s, p + 1, gt - 1))
    IN IF gt = 0 THEN ReaderError(p, opn)
       ELSE IF opn = <<>> \/ opn[Len(opn)] # name THEN ReaderError(gt + 1, opn)
       ELSE [kind |-> "End", name |-> name, pos |-> gt + 1,
             opened |-> SubSeq(opn, 1, Len(opn) - 1)]
  ELSE IF s[p] = "!" THEN
    IF StartsWithAt(s, p, <<"!", "-", "-">>) THEN
      LET gt == IndexOfCommentEnd(s, p + 3)
      IN IF gt = 0 THEN ReaderError(p, opn)
         ELSE [kind |-> "Comment", text |-> SubSeq(s, p + 3, gt - 3), pos |-> gt + 1,
               opened |-> opn]
    ELSE IF StartsWithAt(s, p, <<"!", "D", "O", "C", "T", "Y", "P", "E">>) THEN
      LET gt == IndexOfBalancedGt(s, p + 8)
      IN IF gt = 0 THEN ReaderError(p, opn)
         ELSE [kind |-> "DocType", text |-> SubSeq(s, p + 8, gt - 1), pos |-> gt + 1,
               opened |-> opn]
    ELSE ReaderError(p, opn)
  ELSE IF s[p] = "?" THEN
    LET gt == IndexFrom(s, ">", p)
    IN IF gt = 0 \/ gt < p + 2 \/ s[gt - 1] # "?" THEN ReaderError(p, opn)
       ELSE [kind |-> "Decl", text |-> SubSeq(s, p + 1, gt - 2), pos |-> gt + 1,
             opened |-> opn]
  ELSE
    LET gt == IndexOfTagEnd(s, p, "")
        raw == SubSeq(s, p, gt - 1)
        empty == raw # <<>> /\ raw[Len(raw)] = "/"
        content == IF empty THEN SubSeq(raw, 1, Len(raw) - 1) ELSE raw
        nameEnd == IndexOfWhitespace(content, 1)
        name == SubSeq(content, 1, nameEnd - 1)
        attrs == SubSeq(content, nameEnd, Len(content))
    IN IF gt = 0 THEN ReaderError(p, opn)
       ELSE IF empty
       THEN [kind |-> "Empty", name |-> name, attrs |-> attrs, pos |-> gt + 1,
             opened |-> opn]
       ELSE [kind |-> "Start", name |-> name, attrs |-> attrs, pos |-> gt + 1,
             opened |-> Append(opn, name)]

read_event(s, p, opn) ==
  LET p1 == skip_whitespace(s, p)
  IN IF p1 > Len(s) THEN [kind |-> "Eof", pos |-> p1, opened |-> opn]
     ELSE IF s[p1] = "<" THEN read_markup(s, p1 + 1, opn)
     ELSE LET lt == IndexFrom(s, "<", p1)
              stop == IF lt = 0 THEN Len(s) + 1 ELSE lt
          IN [kind |-> "Text", text |-> trim_end(SubSeq(s, p1, stop - 1)), pos |-> stop,
              opened |-> opn]

\* The character a predefined entity name stands for, "" for any other name.
Entity(name) ==
  CASE name = <<"l", "t">> -> "<"
    [] name = <<"g", "t">> -> ">"
    [] name = <<"a", "m", "p">> -> "&"
    [] name = <<"a", "p", "o", "s">> -> "'"
    [] name = <<"q", "u", "o", "t">> -> "\""
    [] OTHER -> ""

\* unescape: replaces each &name; by its character and fails on an '&' that
\* starts no known entity (numeric references are outside the model's alphabet).
RECURSIVE unescape(_)
unescape(s) ==
  LET amp == IndexFrom(s, "&", 1)
      semi == IndexFrom(s, ";", amp + 1)
      rest == unescape(SubSeq(s, semi + 1, Len(s)))
  IN IF amp = 0 THEN Ok(s)
     ELSE IF semi = 0 THEN Err("XMLError")
     ELSE IF Entity(SubSeq(s, amp + 1, semi - 1)) = "" THEN Err("XMLError")
     ELSE IF ~rest.ok THEN rest
     ELSE Ok(SubSeq(s, 1, amp - 1) \o <<Entity(SubSeq(s, amp + 1, semi - 1))>> \o rest.val)

\* One step of the attribute iterator of a start tag over the text s that
\* follows the name: no attribute left, the next key/value pair and the text
\* after it, or the attribute error a malformed or repeated attribute raises.
next_attribute(s, seen) ==
  LET p1 == skip_whitespace(s, 1)
      keyEnd == CHOOSE i \in p1..(Len(s) + 1) :
                  /\ i > Len(s) \/ s[i] = "=" \/ s[i] \in Whitespace
                  /\ \A j \in p1..(i - 1) : s[j] # "=" /\ s[j] \notin Whitespace
      key == SubSeq(s, p1, keyEnd - 1)
      eq == skip_whitespace(s, keyEnd)
      q == skip_whitespace(s, eq + 1)
      close == IndexFrom(s, s[q], q + 1)
  IN IF p1 > Len(s) THEN [done |-> TRUE, ok |-> TRUE]
     ELSE IF eq > Len(s) \/ s[eq] # "=" THEN [done |-> FALSE, ok |-> FALSE]
     ELSE IF q > Len(s) \/ s[q] \notin {"\"", "'"} THEN [done |-> FALSE, ok |-> FALSE]
     ELSE IF close = 0 THEN [done |-> FALSE, ok |-> FALSE]
     ELSE IF key \in seen THEN [done |-> FALSE, ok |-> FALSE]
     ELSE [done |-> FALSE, ok |-> TRUE, key |-> key, value |-> SubSeq(s, q + 1, close - 1),
           rest |-> SubSeq(s, close + 1, Len(s))]

(***************************************************************************)
(* The parser (src/read.rs).                                               *)
(***************************************************************************)
RECURSIVE to_element_loop(_, _, _)
to_element_loop(element, s, seen) ==
  LET attr == next_attribute(s, seen)
      value == unescape(attr.value)
  IN IF attr.done THEN Ok(element)
     ELSE IF ~attr.ok THEN Err("XMLAttrError")
     ELSE IF ~value.ok THEN value
     ELSE to_element_loop(set(element, attr.key, value.val), attr.rest, seen \cup {attr.key})

to_element(ev) == to_element_loop(new(ev.name), ev.attrs, {})

Running(stk, res) == [stack |-> stk, result |-> res, status |-> "running", ret |-> None]

Returned(stk, res, r) == [stack |-> stk, result |-> res, status |-> "returned", ret |-> Some(r)]

\* stack.pop().unwrap() on an empty stack.
Panicked(stk, res) == [stack |-> stk, result |-> res, status |-> "panicked", ret |-> None]

Top(stk) == stk[Len(stk)]

Pop(stk) == SubSeq(stk, 1, Len(stk) - 1)

on_start(stk, res, ev) ==
  LET e == to_element(ev)
  IN IF e.ok THEN Running(Append(stk, e.val), res)
     ELSE Returned(stk, res, e)

\* An empty tag handled as a start tag: pushed as a frame.
on_empty_pushed(stk, res, ev) ==
  LET e == to_element(ev)
  IN IF e.ok THEN Running(Append(stk, e.val), res)
     ELSE Returned(stk, res, e)

on_empty(stk, res, ev) ==
  LET e == to_element(ev)
  IN IF stk = <<>> THEN Panicked(stk, res)
     ELSE IF ~e.ok THEN Returned(Pop(stk), res, e)
     ELSE Running(Append(Pop(stk), add(Top(stk), e.val)), res)

\* An end tag that writes the completed-root slot for every element it closes.
on_end_always_root(stk, res, ev) ==
  IF stk = <<>> THEN Panicked(stk, res)
  ELSE LET current == Top(stk)
           rest == Pop(stk)
       IN IF rest # <<>>
          THEN Running(Append(Pop(rest), add(Top(rest), current)), Some(current))
          ELSE Running(rest, Some(current))

on_end(stk, res, ev) ==
  IF stk = <<>> THEN Panicked(stk, res)
  ELSE LET current == Top(stk)
           rest == Pop(stk)
       IN IF rest # <<>>
          THEN Running(Append(Pop(rest), add(Top(rest), current)), res)
          ELSE Running(rest, Some(current))

\* A text event whose frame is not pushed back after the text was added.
on_text_unpushed(stk, res, ev) ==
  LET text == unescape(ev.text)
  IN IF ~text.ok THEN Returned(stk, res, text)
     ELSE IF stk = <<>> THEN Panicked(stk, res)
     ELSE Running(Pop(stk), res)

on_text(stk, res, ev) ==
  LET text == unescape(ev.text)
  IN IF ~text.ok THEN Returned(stk, res, text)
     ELSE IF stk = <<>> THEN Panicked(stk, res)
     ELSE Running(Append(Pop(stk), add_node(Top(stk), TextNode(text.val))), res)

\* A loop that closes the frames still open at end-of-stream.
on_eof_closing(stk, res) ==
  IF res.some THEN Returned(stk, res, Ok(res.val))
  ELSE IF stk # <<>> THEN Returned(<<>>, Some(stk[1]), Ok(stk[1]))
  ELSE Returned(stk, res, Err("EmptyDocument"))

\* Ok(Event::Eof) => break, then the match on result.
on_eof(stk, res) ==
  IF res.some THEN Returned(stk, res, Ok(res.val))
  ELSE Returned(stk, res, Err("EmptyDocument"))

on_error(stk, res) == Returned(stk, res, Err("XMLError"))

Ignored == {"Comment", "DocType", "Decl"}

\* One turn of the loop of parse_string on the event the reader returned.
on_event(stk, res, ev) ==
  CASE ev.kind = "Start" -> on_start(stk, res, ev)
    [] ev.kind = "Empty" -> on_empty(stk, res, ev)
    [] ev.kind = "End" -> on_end(stk, res, ev)
    [] ev.kind = "Text" -> on_text(stk, res, ev)
    [] ev.kind = "Eof" -> on_eof(stk, res)
    [] ev.kind \in Ignored -> Running(stk, res)
    [] ev.kind = "Error" -> on_error(stk, res)

RECURSIVE parse_loop(_, _, _, _, _)
parse_loop(s, p, opn, stk, res) ==
  LET ev == read_event(s, p, opn)
      st == on_event(stk, res, ev)
  IN IF st.status = "running" THEN parse_loop(s, ev.pos, ev.opened, st.stack, st.result)
     ELSE st

\* parse_string(input): what the call returns, or that it panicked.
parse_string(s) == parse_loop(s, 1, <<>>, <<>>, None)

(***************************************************************************)
(* The inputs the API machine draws from.                                  *)
(***************************************************************************)
Names == {<<"g">>, SVG}

AttrKeys == {<<"a">>, STYLE}

AttrValues == {<<"1">>, <<"\"">>}

Texts == {<<"t">>}

Comments == {<<"c">>}

StyleKeys == {<<"k">>}

StyleValues == {<<"1">>}

\* The orders in which a HashMap may visit the keys.
KeyOrders ==
  LET n == Cardinality(AttrKeys)
  IN {o \in [1..n -> AttrKeys] : \A i, j \in 1..n : i # j => o[i] # o[j]}

LeafNodes == {TextNode(t) : t \in Texts} \cup {CommentNode(c) : c \in Comments}

Count(s, c) == Cardinality({i \in 1..Len(s) : s[i] = c})

\* The weight of an element: its nodes, its attributes and its style clauses.
RECURSIVE Size(_)
RECURSIVE SizeOfNodes(_)
SizeOfNodes(ns) ==
  IF ns = <<>> THEN 0
  ELSE (IF Head(ns).kind = "Element" THEN Size(Head(ns).element) ELSE 1)
         + SizeOfNodes(Tail(ns))

RECURSIVE SizeOfAttrs(_, _)
SizeOfAttrs(m, keys) ==
  IF keys = {} THEN 0
  ELSE LET k == CHOOSE x \in keys : TRUE
       IN 1 + Count(m[k], ";") + SizeOfAttrs(m, keys \ {k})

Size(e) == 1 + SizeOfAttrs(e.attributes, DOMAIN e.attributes) + SizeOfNodes(e.children)

SizeOfSlot(slot) == IF slot.some THEN Size(slot.val) ELSE 0

TotalSize(es) == SizeOfSlot(es[1]) + SizeOfSlot(es[2])

Live(h) == els[h].some

(***************************************************************************)
(* The API machine: a caller holding up to two elements applies the        *)
(* operations of Element to them.  last records the call just made and     *)
(* what it returned.                                                       *)
(***************************************************************************)
New(h, name) ==
  /\ els' = [els EXCEPT ![h] = Some(new(name))]
  /\ TotalSize(els') <= MaxSize
  /\ last' = [op |-> "new", h |-> h, name |-> name]
  /\ UNCHANGED <<calls, parserVars>>

Set(h, k, v) ==
  /\ Live(h)
  /\ els' = [els EXCEPT ![h] = Some(set(els[h].val, k, v))]
  /\ TotalSize(els') <= MaxSize
  /\ last' = [op |-> "set", h |-> h, key |-> k, value |-> v, old |-> get(els[h].val, k)]
  /\ UNCHANGED <<calls, parserVars>>

Get(h, k) ==
  /\ Live(h)
  /\ last' = [op |-> "get", h |-> h, key |-> k, ret |-> get(els[h].val, k)]
  /\ UNCHANGED <<els, calls, parserVars>>

\* add(&mut self, child: &Element): the borrow rules make self and child distinct.
Add(p, c) ==
  /\ p # c
  /\ Live(p)
  /\ Live(c)
  /\ els' = [els EXCEPT ![p] = Some(add(els[p].val, els[c].val))]
  /\ TotalSize(els') <= MaxSize
  /\ last' = [op |-> "add", h |-> p, child |-> c]
  /\ UNCHANGED <<calls, parserVars>>

AddNode(h, n) ==
  /\ Live(h)
  /\ els' = [els EXCEPT ![h] = Some(add_node(els[h].val, n))]
  /\ TotalSize(els') <= MaxSize
  /\ last' = [op |-> "add_node", h |-> h, node |-> n]
  /\ UNCHANGED <<calls, parserVars>>

AddStyle(h, k, v) ==
  /\ Live(h)
  /\ els' = [els EXCEPT ![h] = Some(add_style(els[h].val, k, v))]
  /\ TotalSize(els') <= MaxSize
  /\ last' = [op |-> "add_style", h |-> h, key |-> k, value |-> v]
  /\ UNCHANGED <<calls, parserVars>>

StyleMap(h) ==
  /\ Live(h)
  /\ last' = [op |-> "style_map", h |-> h, ret |-> style_map(els[h].val)]
  /\ UNCHANGED <<els, calls, parserVars>>

ShallowClone(src, dst) ==
  /\ src # dst
  /\ Live(src)
  /\ els' = [els EXCEPT ![dst] = Some(shallow_clone(els[src].val))]
  /\ last' = [op |-> "shallow_clone", h |-> dst, src |-> src]
  /\ UNCHANGED <<calls, parserVars>>

Display(h, ord) ==
  /\ Live(h)
  /\ last' = [op |-> "display", h |-> h, ret |-> Element_fmt(els[h].val, ord)]
  /\ UNCHANGED <<els, calls, parserVars>>

ToPrettyString(h, ord) ==
  /\ Live(h)
  /\ last' = [op |-> "to_pretty_string", h |-> h, ret |-> to_pretty_string(els[h].val, ord)]
  /\ UNCHANGED <<els, calls, parserVars>>

ParserIdle ==
  /\ input = <<>>
  /\ pos = 1
  /\ opened = <<>>
  /\ stack = <<>>
  /\ result = None
  /\ pstatus = "idle"
  /\ ret = None
  /\ lastEv = [kind |-> "None"]
  /\ nStart = 0
  /\ nEnd = 0

\* The caller hands the text the serializer just returned to parse_string.
Parse ==
  /\ last.op \in {"display", "to_pretty_string"}
  /\ last' = [op |-> "parse_string", h |-> last.h, mode |-> last.op, text |-> last.ret,
              ret |-> parse_string(last.ret)]
  /\ UNCHANGED <<els, calls, parserVars>>

NoCalls == [base |-> None, log |-> <<>>]

Init ==
  /\ els = [h \in Handles |-> None]
  /\ last = [op |-> "init"]
  /\ calls = NoCalls
  /\ ParserIdle

Next ==
  \/ \E h \in Handles, name \in Names : New(h, name)
  \/ \E h \in Handles, k \in AttrKeys, v \in AttrValues : Set(h, k, v)
  \/ \E h \in Handles, k \in AttrKeys : Get(h, k)
  \/ \E p \in Handles, c \in Handles : Add(p, c)
  \/ \E h \in Handles, n \in LeafNodes : AddNode(h, n)
  \/ \E h \in Handles, k \in StyleKeys, v \in StyleValues : AddStyle(h, k, v)
  \/ \E h \in Handles : StyleMap(h)
  \/ \E src \in Handles, dst \in Handles : ShallowClone(src, dst)
  \/ \E ord \in KeyOrders : Display(First(Handles), ord)
  \/ \E ord \in KeyOrders : ToPrettyString(First(Handles), ord)
  \/ Parse

Spec == Init /\ [][Next]_vars

(***************************************************************************)
(* The parser machine: one call of parse_string on an input text, one      *)
(* action per arm of its match on the event the reader returns.            *)
(***************************************************************************)
Tokens ==
  { <<"<", "a", ">">>,
    <<"<", "/", "a", ">">>,
    <<"<", "a", ">", "<", "/", "a", ">">>,
    <<"<", "/", "b", ">">>,
    <<"<", "b", "/", ">">>,
    <<"<", "b", " ", "k", "=", "\"", "1", "\"", "/", ">">>,
    <<"t">>,
    <<"&", "l", "t", ";">>,
    <<"\n">>,
    <<"<", "!", "-", "-", "c", "-", "-", ">">> }

RECURSIVE Flatten(_)
Flatten(ss) == IF ss = <<>> THEN <<>> ELSE Head(ss) \o Flatten(Tail(ss))

Inputs == {Flatten(ts) : ts \in UNION {[1..n -> Tokens] : n \in 0..MaxTokens}}

ParserInit ==
  /\ els = [h \in Handles |-> None]
  /\ last = [op |-> "init"]
  /\ calls = NoCalls
  /\ input \in Inputs
  /\ pos = 1
  /\ opened = <<>>
  /\ stack = <<>>
  /\ result = None
  /\ pstatus = "running"
  /\ ret = None
  /\ lastEv = [kind |-> "None"]
  /\ nStart = 0
  /\ nEnd = 0

Event == read_event(input, pos, opened)

\* The loop takes the reader's event ev and moves to the state st.
Turn(ev, st) ==
  /\ pos' = ev.pos
  /\ opened' = ev.opened
  /\ lastEv' = ev
  /\ stack' = st.stack
  /\ result' = st.result
  /\ pstatus' = st.status
  /\ ret' = st.ret
  /\ UNCHANGED <<input, apiVars>>

StartTag ==
  /\ pstatus = "running"
  /\ Event.kind = "Start"
  /\ Turn(Event, on_start(stack, result, Event))
  /\ nStart' = IF pstatus' = "running" THEN nStart + 1 ELSE nStart
  /\ UNCHANGED nEnd

EmptyTag ==
  /\ pstatus = "running"
  /\ Event.kind = "Empty"
  /\ Turn(Event, on_empty(stack, result, Event))
  /\ UNCHANGED <<nStart, nEnd>>

EndTag ==
  /\ pstatus = "running"
  /\ Event.kind = "End"
  /\ Turn(Event, on_end(stack, result, Event))
  /\ nEnd' = IF pstatus' = "running" THEN nEnd + 1 ELSE nEnd
  /\ UNCHANGED nStart

Text ==
  /\ pstatus = "running"
  /\ Event.kind = "Text"
  /\ Turn(Event, on_text(stack, result, Event))
  /\ UNCHANGED <<nStart, nEnd>>

Eof ==
  /\ pstatus = "running"
  /\ Event.kind = "Eof"
  /\ Turn(Event, on_eof(stack, result))
  /\ UNCHANGED <<nStart, nEnd>>

Skip ==
  /\ pstatus = "running"
  /\ Event.kind \in Ignored
  /\ Turn(Event, Running(stack, result))
  /\ UNCHANGED <<nStart, nEnd>>

ReadError ==
  /\ pstatus = "running"
  /\ Event.kind = "Error"
  /\ Turn(Event, on_error(stack, result))
  /\ UNCHANGED <<nStart, nEnd>>

ParserNext ==
  \/ StartTag
  \/ EmptyTag
  \/ EndTag
  \/ Text
  \/ Eof
  \/ Skip
  \/ ReadError

ParserSpec == ParserInit /\ [][ParserNext]_vars

(***************************************************************************)
(* The style machine: one element whose style attribute is written by      *)
(* add_style or set directly and decoded by style_map.  calls records what *)
(* the caller did to the style: the text it last set directly, if any, and *)
(* the add_style calls made since.                                         *)
(***************************************************************************)
ClauseKeys == {<<"a">>, <<"b">>, <<"c">>}

ClauseValues == {<<"1">>, <<"2">>}

RawStyles ==
  { <<>>,
    <<"a", ":", "1", ";">>,
    <<"b", "r", "o", "k", "e", "n">>,
    <<"a", ":", "1", ";", "b">> }

Colours == {<<"r", "e", "d">>}

\* style_stroke_colour and style_fill (src/style.rs): format!("stroke:{stroke};").
style_stroke_colour(stroke) == <<"s", "t", "r", "o", "k", "e", ":">> \o stroke \o <<";">>

style_fill(fill) == <<"f", "i", "l", "l", ":">> \o fill \o <<";">>

\* The style texts the helpers of src/style.rs hand to set("style", ...).
HelperStyles == {style_stroke_colour(c) : c \in Colours} \cup {style_fill(c) : c \in Colours}

StyleInit ==
  /\ els = [h \in Handles |-> IF h = 1 THEN Some(new(<<"g">>)) ELSE None]
  /\ last = [op |-> "init"]
  /\ calls = NoCalls
  /\ ParserIdle

StyleAdd(k, v) ==
  /\ Len(calls.log) < MaxClauses
  /\ els' = [els EXCEPT ![1] = Some(add_style(els[1].val, k, v))]
  /\ calls' = [calls EXCEPT !.log = Append(@, <<k, v>>)]
  /\ last' = [op |-> "add_style", h |-> 1, key |-> k, value |-> v]
  /\ UNCHANGED parserVars

StyleSet(s) ==
  /\ els' = [els EXCEPT ![1] = Some(set(els[1].val, STYLE, s))]
  /\ calls' = [base |-> Some(s), log |-> <<>>]
  /\ last' = [op |-> "set", h |-> 1, key |-> STYLE, value |-> s,
              old |-> get(els[1].val, STYLE)]
  /\ UNCHANGED parserVars

StyleDecode ==
  /\ last' = [op |-> "style_map", h |-> 1, ret |-> style_map(els[1].val)]
  /\ UNCHANGED <<els, calls, parserVars>>

StyleNext ==
  \/ \E k \in ClauseKeys, v \in ClauseValues : StyleAdd(k, v)
  \/ \E s \in RawStyles \cup HelperStyles : StyleSet(s)
  \/ StyleDecode

StyleSpec == StyleInit /\ [][StyleNext]_vars

(***************************************************************************)
(* parse_colour (src/convert.rs) and the colour machine: a caller hands it  *)
(* one text.  The texts of the model are ASCII, so a byte index is a       *)
(* character index.                                                        *)
(***************************************************************************)
\* char::to_digit(16): the value of a hexadecimal digit, -1 for any other character.
HexDigit(c) ==
  CASE c = "0" -> 0 [] c = "1" -> 1 [] c = "2" -> 2 [] c = "3" -> 3 [] c = "4" -> 4
    [] c = "5" -> 5 [] c = "6" -> 6 [] c = "7" -> 7 [] c = "8" -> 8 [] c = "9" -> 9
    [] c \in {"a", "A"} -> 10 [] c \in {"b", "B"} -> 11 [] c \in {"c", "C"} -> 12
    [] c \in {"d", "D"} -> 13 [] c \in {"e", "E"} -> 14 [] c \in {"f", "F"} -> 15
    [] OTHER -> -1

RECURSIVE HexNumber(_)
HexNumber(digits) ==
  IF digits = <<>> THEN 0
  ELSE 16 * HexNumber(SubSeq(digits, 1, Len(digits) - 1)) + HexDigit(digits[Len(digits)])

\* i32::from_str_radix(s, 16): an optional sign, then one or more digits.
from_str_radix(s) ==
  LET signed == s # <<>> /\ Head(s) \in {"+", "-"}
      digits == IF signed THEN Tail(s) ELSE s
      n == IF signed /\ Head(s) = "-" THEN 0 - HexNumber(digits) ELSE HexNumber(digits)
  IN IF digits = <<>> THEN Err("ParseInt")
     ELSE IF \E i \in 1..Len(digits) : HexDigit(digits[i]) < 0 THEN Err("ParseInt")
     ELSE IF n > 2147483647 \/ n < -2147483647 - 1 THEN Err("ParseInt")
     ELSE Ok(n)

\* channel as f64 / 255.0
Channel(n) == [num |-> n, den |-> 255]

\* What a call of parse_colour does: it returns, or a slice of value ends
\* past the end of value and the call panics.
parse_colour(value) ==
  LET start == IF value # <<>> /\ value[1] = "#" THEN 1 ELSE 0
      red == from_str_radix(SubSeq(value, start + 1, start + 2))
      green == from_str_radix(SubSeq(value, start + 3, start + 4))
      blue == from_str_radix(SubSeq(value, start + 5, start + 6))
      alpha == IF Len(value) > start + 6
               THEN from_str_radix(SubSeq(value, start + 7, Len(value)))
               ELSE Ok(255)
  IN IF Len(value) < 6 THEN [status |-> "returned", ret |-> Err("ColourError")]
     ELSE IF ~red.ok THEN [status |-> "returned", ret |-> red]
     ELSE IF ~green.ok THEN [status |-> "returned", ret |-> green]
     ELSE IF start + 6 > Len(value) THEN [status |-> "panicked"]
     ELSE IF ~blue.ok THEN [status |-> "returned", ret |-> blue]
     ELSE IF ~alpha.ok THEN [status |-> "returned", ret |-> alpha]
     ELSE [status |-> "returned",
           ret |-> Ok(<<Channel(red.val), Channel(green.val), Channel(blue.val),
                        Channel(alpha.val)>>)]

ColourChars == {"#", "1", "f", "z"}

ColourInputs == UNION {[1..n -> ColourChars] : n \in 0..MaxColourLen}

\* The caller holds the text it is about to hand to parse_colour.
ColourInit ==
  /\ els = [h \in Handles |-> None]
  /\ last \in {[op |-> "colour", value |-> v] : v \in ColourInputs}
  /\ calls = NoCalls
  /\ ParserIdle

ParseColour ==
  /\ last.op = "colour"
  /\ last' = [op |-> "parse_colour", value |-> last.value, call |-> parse_colour(last.value)]
  /\ UNCHANGED <<els, calls, parserVars>>

ColourNext == ParseColour

ColourSpec == ColourInit /\ [][ColourNext]_vars

(***************************************************************************)
(* Properties.                                                             *)
(***************************************************************************)
RECURSIVE NoComments(_)
NoComments(e) ==
  \A i \in 1..Len(e.children) :
    /\ e.children[i].kind # "Comment"
    /\ e.children[i].kind = "Element" => NoComments(e.children[i].element)

\* C1: parse_string applied to the compact or pretty serialization of a tree
\* without Comment nodes returns Ok with a tree equal to it: same name, same
\* attribute mapping, same ordered children, recursively.
C1_RoundTrip ==
  (last.op = "parse_string" /\ NoComments(els[last.h].val)) =>
    /\ last.ret.status = "returned"
    /\ last.ret.ret.val = Ok(els[last.h].val)

\* The kinds of the events the reader returns for the text s from position p.
RECURSIVE EventKinds(_, _, _)
EventKinds(s, p, opn) ==
  LET ev == read_event(s, p, opn)
  IN IF ev.kind \in {"Eof", "Error"} THEN <<ev.kind>>
     ELSE <<ev.kind>> \o EventKinds(s, ev.pos, ev.opened)

\* The input holds only text and ignored events: no tag at all.
NoTopLevelElement(s) ==
  LET kinds == EventKinds(s, 1, <<>>)
  IN \A i \in 1..Len(kinds) : kinds[i] \in {"Text", "Eof"} \cup Ignored

\* C2: on an input with no top-level element (empty, or only text and
\* ignored events outside any tag) parse_string returns EmptyDocument.
C2_MissingRoot ==
  (pstatus # "running" /\ NoTopLevelElement(input)) =>
    /\ pstatus = "returned"
    /\ ret = Some(Err("EmptyDocument"))

\* C3: an end-tag, empty-tag or text event taken while the stack is empty
\* makes parse_string return an Err value; the parser never panics.
C3_FailsCleanly ==
  [][/\ pstatus' # "panicked"
     /\ (stack = <<>> /\ lastEv'.kind \in {"End", "Empty", "Text"}) =>
          (pstatus' = "returned" /\ ~ret'.val.ok)]_vars

\* C4: end-of-stream leaves the open frames and the completed-root slot as
\* they are and returns the completed root if there is one, EmptyDocument
\* otherwise, also when start tags are still open.
C4_EndOfStream ==
  [][(pstatus = "running" /\ lastEv'.kind = "Eof") =>
       /\ stack' = stack
       /\ result' = result
       /\ pstatus' = "returned"
       /\ ret' = Some(IF result.some THEN Ok(result.val) ELSE Err("EmptyDocument"))]_vars

C4_Witness ==
  /\ pstatus = "returned"
  /\ lastEv.kind = "Eof"
  /\ stack # <<>>
  /\ ~result.some
  /\ ret = Some(Err("EmptyDocument"))

\* The attributes the empty tags of Tokens carry.
DecodedAttrs(ev) == IF ev.attrs = <<>> THEN <<>> ELSE (<<"k">> :> <<"1">>)

\* C5: an empty-tag event taken with a frame open appends one childless
\* Element with the tag's name and attributes to the end of the top frame's
\* children and changes nothing else; <a><b/></a> parses to a with the one
\* child b.
C5_SelfClosing ==
  [][/\ (pstatus = "running" /\ stack # <<>> /\ lastEv'.kind = "Empty") =>
          /\ pstatus' = "running"
          /\ Len(stack') = Len(stack)
          /\ Pop(stack') = Pop(stack)
          /\ Top(stack').name = Top(stack).name
          /\ Top(stack').attributes = Top(stack).attributes
          /\ Top(stack').children =
               Append(Top(stack).children,
                      ElementNode([name |-> <<"b">>, children |-> <<>>,
                                   attributes |-> DecodedAttrs(lastEv')]))
          /\ result' = result
     /\ (input = <<"<", "a", ">", "<", "b", "/", ">", "<", "/", "a", ">">>
           /\ pstatus' = "returned") =>
          ret' = Some(Ok([name |-> <<"a">>,
                          children |-> <<ElementNode([name |-> <<"b">>, children |-> <<>>,
                                                      attributes |-> <<>>])>>,
                          attributes |-> <<>>]))]_vars

C5_Witness ==
  /\ pstatus = "running"
  /\ lastEv.kind = "Empty"
  /\ Len(stack) = 1
  /\ Len(Top(stack).children) = 2
  /\ Top(stack).children[2].element.attributes # <<>>

\* The attribute keys of the tag that starts the text s, in the order written.
RECURSIVE KeysWritten(_, _)
KeysWritten(s, seen) ==
  LET attr == next_attribute(s, seen)
  IN IF attr.done \/ ~attr.ok THEN <<>>
     ELSE <<attr.key>> \o KeysWritten(attr.rest, seen \cup {attr.key})

\* Every tag of the text s writes its attribute keys in ascending order.
RECURSIVE TagsAscending(_, _, _)
TagsAscending(s, p, opn) ==
  LET ev == read_event(s, p, opn)
      keys == KeysWritten(ev.attrs, {})
  IN IF ev.kind \in {"Eof", "Error"} THEN TRUE
     ELSE /\ ev.kind \in {"Start", "Empty"} =>
               \A i \in 1..(Len(keys) - 1) : StrLess(keys[i], keys[i + 1])
          /\ TagsAscending(s, ev.pos, ev.opened)

Serialized(op, e, ord) ==
  IF op = "display" THEN Element_fmt(e, ord) ELSE to_pretty_string(e, ord)

\* C6: the compact and the pretty serialization of an element depend only on
\* its name, children and attribute mapping, not on the order in which the
\* map holds the pairs, and write the attributes in ascending order of key.
C6_OrderIndependent ==
  last.op \in {"display", "to_pretty_string"} =>
    /\ \A ord \in KeyOrders : Serialized(last.op, els[last.h].val, ord) = last.ret
    /\ TagsAscending(last.ret, 1, <<>>)

C6_Witness ==
  /\ last.op = "display"
  /\ DOMAIN els[last.h].val.attributes = AttrKeys
  /\ els[last.h].val.children # <<>>

\* C7: set(key, value) leaves the element with exactly one entry for key,
\* holding value, and every other entry as it was; get returns the bare text
\* of the entry of its key, and nothing for a key that has none.
C7_SetOverwrites ==
  [][/\ last'.op = "set" =>
          LET before == els[last'.h].val.attributes
              after == els'[last'.h].val.attributes
          IN /\ DOMAIN after = DOMAIN before \cup {last'.key}
             /\ after[last'.key] = last'.value
             /\ \A k \in DOMAIN before \ {last'.key} : after[k] = before[k]
     /\ last'.op = "get" =>
          LET attrs == els[last'.h].val.attributes
          IN IF last'.key \in DOMAIN attrs
             THEN last'.ret = Some(attrs[last'.key])
             ELSE last'.ret = None
     /\ last'.op = "new" => els'[last'.h].val.attributes = <<>>]_vars

C7_Witness ==
  /\ last.op = "set"
  /\ last.old.some
  /\ last.old.val # last.value
  /\ DOMAIN els[last.h].val.attributes = AttrKeys

Mutators == {"set", "add", "add_node", "add_style"}

\* C8: add(parent, child) appends a copy of child as the last node of
\* parent's children and changes nothing else of parent and nothing of
\* child; a later mutation of one element leaves the other as it was.
C8_CopyOnAdd ==
  [][/\ last'.op = "add" =>
          /\ els'[last'.h].val.children =
               Append(els[last'.h].val.children, ElementNode(els[last'.child].val))
          /\ els'[last'.h].val.name = els[last'.h].val.name
          /\ els'[last'.h].val.attributes = els[last'.h].val.attributes
          /\ els'[last'.child] = els[last'.child]
     /\ last'.op \in Mutators =>
          \A h \in Handles \ {last'.h} : els'[h] = els[h]]_vars

\* A child added behind a child the parent already had.
C8_Witness ==
  /\ last.op = "add"
  /\ Len(els[last.h].val.children) = 2
  /\ els[last.h].val.children[1].kind = "Text"
  /\ els[last.h].val.children[2] = ElementNode(els[last.child].val)

\* C9: shallow_clone returns an element with the name and the attribute
\* mapping of the source and no children, leaves the source as it is, and a
\* later mutation of one of the two leaves the other as it was.
C9_ShallowClone ==
  [][/\ last'.op = "shallow_clone" =>
          /\ els'[last'.h].val.name = els[last'.src].val.name
          /\ els'[last'.h].val.attributes = els[last'.src].val.attributes
          /\ els'[last'.h].val.children = <<>>
          /\ els'[last'.src] = els[last'.src]
     /\ last.op = "shallow_clone" /\ last'.op \in Mutators =>
          \A h \in Handles \ {last'.h} : els'[h] = els[h]]_vars

C9_Witness ==
  /\ last.op = "shallow_clone"
  /\ els[last.src].val.children # <<>>
  /\ els[last.src].val.attributes # <<>>
  /\ els[last.h].val.attributes = els[last.src].val.attributes

\* The style text of a sequence of key/value clauses.
RECURSIVE JoinClauses(_)
JoinClauses(log) ==
  IF log = <<>> THEN <<>>
  ELSE IF Len(log) = 1 THEN log[1][1] \o <<":">> \o log[1][2]
  ELSE JoinClauses(SubSeq(log, 1, Len(log) - 1)) \o <<";">>
         \o log[Len(log)][1] \o <<":">> \o log[Len(log)][2]

DistinctKeys(log) == \A i, j \in 1..Len(log) : i # j => log[i][1] # log[j][1]

\* C10: add_style calls with distinct keys on an element that had no style
\* leave style = "k1:v1;...;kn:vn" in call order, and style_map returns Ok
\* with exactly the mapping of those pairs.
C10_StyleRoundTrip ==
  (~calls.base.some /\ calls.log # <<>> /\ DistinctKeys(calls.log)) =>
    /\ STYLE \in DOMAIN els[1].val.attributes
    /\ els[1].val.attributes[STYLE] = JoinClauses(calls.log)
    /\ last.op = "style_map" =>
         /\ last.ret.ok
         /\ DOMAIN last.ret.val = {calls.log[i][1] : i \in 1..Len(calls.log)}
         /\ \A i \in 1..Len(calls.log) : last.ret.val[calls.log[i][1]] = calls.log[i][2]

C10_Witness ==
  /\ last.op = "style_map"
  /\ ~calls.base.some
  /\ Len(calls.log) = 3
  /\ DistinctKeys(calls.log)

\* The positions that bound the ';'-separated clauses of s.
Seps(s) == {0, Len(s) + 1} \cup {i \in 1..Len(s) : s[i] = ";"}

\* The clauses of s, each as the pair of the separators around it.
ClauseBounds(s) ==
  {b \in Seps(s) \X Seps(s) : b[1] < b[2] /\ \A i \in Seps(s) : ~(b[1] < i /\ i < b[2])}

ClauseAt(s, b) == SubSeq(s, b[1] + 1, b[2] - 1)

HasBareClause(s) == \E b \in ClauseBounds(s) : ~Contains(ClauseAt(s, b), ":")

\* C11: style_map on an element without a style attribute returns Ok with an
\* empty mapping; on a style with a ';'-separated clause lacking ':' it
\* returns Err(MalformedStyle), with no mapping; the element is unchanged.
C11_StyleMapOutcomes ==
  [][last'.op = "style_map" =>
       LET attrs == els[1].val.attributes
       IN /\ els' = els
          /\ STYLE \notin DOMAIN attrs => last'.ret = Ok(<<>>)
          /\ (STYLE \in DOMAIN attrs /\ HasBareClause(attrs[STYLE])) =>
               last'.ret = Err("MalformedStyle")]_vars

C11_Witness ==
  /\ last.op = "style_map"
  /\ get(els[1].val, STYLE) = Some(<<"a", ":", "1", ";", "b">>)
  /\ last.ret = Err("MalformedStyle")

\* The elements of the tree rooted at e.
RECURSIVE AllElements(_)
AllElements(e) ==
  {e} \cup UNION {AllElements(e.children[i].element) :
                    i \in {j \in 1..Len(e.children) : e.children[j].kind = "Element"}}

Occurs(sub, s) == \E i \in 1..Len(s) : StartsWithAt(s, i, sub)

\* The serialized text out of element e without the preamble of pretty mode.
Body(op, e, out) ==
  IF op = "to_pretty_string" /\ e.name = SVG
  THEN SubSeq(out, Len(XML_DECL) + Len(DOCTYPE) + 1, Len(out))
  ELSE out

\* The number of attributes emitted for the tree rooted at e.
RECURSIVE AttrCount(_)
RECURSIVE AttrCountOfNodes(_)
AttrCountOfNodes(ns) ==
  IF ns = <<>> THEN 0
  ELSE (IF Head(ns).kind = "Element" THEN AttrCount(Head(ns).element) ELSE 0)
         + AttrCountOfNodes(Tail(ns))

AttrCount(e) == Cardinality(DOMAIN e.attributes) + AttrCountOfNodes(e.children)

\* C12: an emitted attribute is key=, then the bare value text unchanged
\* between single quotes if the text holds a double quote and between double
\* quotes otherwise; nothing else is emitted as an attribute.
C12_Quoting ==
  last.op \in {"display", "to_pretty_string"} =>
    LET body == Body(last.op, els[last.h].val, last.ret)
    IN /\ \A e \in AllElements(els[last.h].val) : \A k \in DOMAIN e.attributes :
            LET v == e.attributes[k]
            IN IF \E i \in 1..Len(v) : v[i] = "\""
               THEN Occurs(<<" ">> \o k \o <<"=", "'">> \o v \o <<"'">>, body)
               ELSE Occurs(<<" ">> \o k \o <<"=", "\"">> \o v \o <<"\"">>, body)
       /\ Count(body, "=") = AttrCount(els[last.h].val)

C12_Witness ==
  /\ last.op = "display"
  /\ get(els[last.h].val, <<"a">>) = Some(<<"\"">>)
  /\ get(els[last.h].val, STYLE) = Some(<<"1">>)

\* The attributes of e as the serializers write them.
AttrText(e) ==
  fmt_attributes(e.attributes, sort_by_key(iter(e.attributes, CHOOSE o \in KeyOrders : TRUE)))

\* The lines of the compact form of e according to the grammar: one line for
\* a childless element, else the open tag, the lines of each child, the
\* closing tag.
RECURSIVE GrammarLines(_)
RECURSIVE GrammarLinesOfNodes(_)
GrammarLinesOfNodes(ns) ==
  IF ns = <<>> THEN <<>>
  ELSE (CASE Head(ns).kind = "Text" -> <<Head(ns).text>>
          [] Head(ns).kind = "Comment" ->
               <<(<<"<", "!", "-", "-", " ">> \o Head(ns).text \o <<" ", "-", "-", ">">>)>>
          [] Head(ns).kind = "Element" -> GrammarLines(Head(ns).element))
         \o GrammarLinesOfNodes(Tail(ns))

GrammarLines(e) ==
  IF e.children = <<>>
  THEN <<(<<"<">> \o e.name \o AttrText(e) \o <<" ", "/", ">">>)>>
  ELSE <<(<<"<">> \o e.name \o AttrText(e) \o <<">">>)>>
         \o GrammarLinesOfNodes(e.children)
         \o <<(<<"<", "/">> \o e.name \o <<">">>)>>

TagStarts(s) == {i \in 1..(Len(s) - 1) : s[i] = "<" /\ s[i + 1] # "!"}

\* The number of tabs between the start of the line of position i and i, or
\* -1 if anything else stands there.
Indent(s, i) ==
  LET breaks == {j \in 1..(i - 1) : s[j] = "\n"}
      start == IF breaks = {} THEN 1 ELSE 1 + CHOOSE j \in breaks : \A k \in breaks : k <= j
  IN IF \A j \in start..(i - 1) : s[j] = "\t" THEN i - start ELSE -1

\* The indentation of every tag of s, in the order the tags are written.
TagIndents(s) ==
  LET S == TagStarts(s)
  IN [k \in 1..Cardinality(S) |->
        Indent(s, CHOOSE i \in S : Cardinality({j \in S : j < i}) = k - 1)]

\* The nesting depth of every tag of the tree of e, in document order.
RECURSIVE TagDepths(_, _)
RECURSIVE TagDepthsOfNodes(_, _)
TagDepthsOfNodes(ns, d) ==
  IF ns = <<>> THEN <<>>
  ELSE (IF Head(ns).kind = "Element" THEN TagDepths(Head(ns).element, d) ELSE <<>>)
         \o TagDepthsOfNodes(Tail(ns), d)

TagDepths(e, d) ==
  IF e.children = <<>> THEN <<d>>
  ELSE <<d>> \o TagDepthsOfNodes(e.children, d + 1) \o <<d>>

\* C14: in the pretty form the line of the opening tag of an element at
\* depth d, and the line of its closing tag if it has children, starts with
\* exactly d tabs followed directly by the tag and ends with a line break
\* after the tag; Element::new("g") renders as <g /> and a line break.
C14_PrettyIndent ==
  last.op = "to_pretty_string" =>
    LET e == els[last.h].val
        body == Body(last.op, e, last.ret)
    IN /\ TagIndents(body) = TagDepths(e, 0)
       /\ \A i \in TagStarts(body) :
            LET gt == IndexFrom(body, ">", i)
            IN gt > 0 /\ gt < Len(body) /\ body[gt + 1] = "\n"
       /\ e = new(<<"g">>) => last.ret = <<"<", "g", " ", "/", ">", "\n">>

Occurrences(sub, s) == Cardinality({i \in 1..Len(s) : StartsWithAt(s, i, sub)})

\* C15: the pretty form starts with the fixed declaration and doctype lines
\* exactly when the root is named svg; they are written once, whatever the
\* attributes and children are, and not again for a nested element named svg.
C15_Preamble ==
  last.op = "to_pretty_string" =>
    LET e == els[last.h].val
        n == IF e.name = SVG THEN 1 ELSE 0
    IN /\ StartsWithAt(last.ret, 1, XML_DECL \o DOCTYPE) <=> e.name = SVG
       /\ Occurrences(<<"<", "?", "x", "m", "l">>, last.ret) = n
       /\ Occurrences(<<"<", "!", "D", "O", "C", "T", "Y", "P", "E">>, last.ret) = n
       /\ StartsWithAt(last.ret, 1 + n * (Len(XML_DECL) + Len(DOCTYPE)), <<"<">> \o e.name)

C15_Witness ==
  /\ last.op = "to_pretty_string"
  /\ els[last.h].val.name = SVG
  /\ els[last.h].val.children = <<ElementNode(new(SVG))>>

\* The text holds six hexadecimal digits after an optional leading '#'.
SixHexDigits(v) ==
  LET body == IF v # <<>> /\ v[1] = "#" THEN Tail(v) ELSE v
  IN Len(body) >= 6 /\ \A i \in 1..6 : HexDigit(body[i]) >= 0

\* C16: for a text that does not hold six hexadecimal digits after an
\* optional leading '#', parse_colour returns an Err value and does not panic.
C16_RejectsInvalid ==
  (last.op = "parse_colour" /\ ~SixHexDigits(last.value)) =>
    /\ last.call.status = "returned"
    /\ ~last.call.ret.ok

\* C17: an end-tag taken with a frame open pops the top frame; with a frame
\* left below, the popped element becomes the last child of that frame and
\* the completed-root slot stays as it is; with none left, the popped
\* element becomes the completed root.  Nothing else of any frame changes.
C17_EndTag ==
  [][(pstatus = "running" /\ stack # <<>> /\ lastEv'.kind = "End") =>
       LET popped == Top(stack)
           rest == Pop(stack)
       IN /\ pstatus' = "running"
          /\ Len(stack') = Len(rest)
          /\ IF rest # <<>>
             THEN /\ Pop(stack') = Pop(rest)
                  /\ Top(stack').name = Top(rest).name
                  /\ Top(stack').attributes = Top(rest).attributes
                  /\ Top(stack').children = Append(Top(rest).children, ElementNode(popped))
                  /\ result' = result
             ELSE result' = Some(popped)]_vars

C17_Witness ==
  /\ pstatus = "running"
  /\ lastEv.kind = "End"
  /\ Len(stack) = 1
  /\ ~result.some
  /\ Len(Top(stack).children) = 1
  /\ Top(stack).children[1].kind = "Element"
  /\ Top(stack).children[1].element.children = <<TextNode(<<"t">>)>>

ClauseKey(c) == SubSeq(c, 1, First({i \in 1..Len(c) : c[i] = ":"}) - 1)

ClauseValue(c) == SubSeq(c, First({i \in 1..Len(c) : c[i] = ":"}) + 1, Len(c))

\* The mapping m holds the clause c of the form k:v as k -> v.
HoldsClause(m, c) == ClauseKey(c) \in DOMAIN m /\ m[ClauseKey(c)] = ClauseValue(c)

\* C18: style_map returns Err(MalformedStyle) or a mapping with one entry
\* for each ';'-separated clause of the style, as many entries as clauses,
\* also after add_style calls that repeat a key.
C18_NoSilentDrop ==
  (last.op = "style_map" /\ STYLE \in DOMAIN els[1].val.attributes) =>
    LET s == els[1].val.attributes[STYLE]
    IN \/ last.ret = Err("MalformedStyle")
       \/ /\ last.ret.ok
          /\ Cardinality(DOMAIN last.ret.val) = Cardinality(ClauseBounds(s))
          /\ \A b \in ClauseBounds(s) : HoldsClause(last.ret.val, ClauseAt(s, b))

\* The style is zero or more key:value clauses, separated by ';' and
\* possibly ended by one.
ClausesOnly(s) ==
  \/ s = <<>>
  \/ ~HasBareClause(IF s[Len(s)] = ";" THEN SubSeq(s, 1, Len(s) - 1) ELSE s)

\* C19: style_map returns Ok for every style made of zero or more key:value
\* clauses: an empty mapping for the empty style, the mapping of the clauses
\* for a style that ends in ';' as the helpers of src/style.rs write it.
C19_DecodesClauses ==
  (last.op = "style_map" /\ STYLE \in DOMAIN els[1].val.attributes
     /\ ClausesOnly(els[1].val.attributes[STYLE])) =>
    LET s == els[1].val.attributes[STYLE]
        body == IF s # <<>> /\ s[Len(s)] = ";" THEN SubSeq(s, 1, Len(s) - 1) ELSE s
    IN /\ last.ret.ok
       /\ s = <<>> => last.ret.val = <<>>
       /\ s # <<>> => \A b \in ClauseBounds(body) :
                        ClauseKey(ClauseAt(body, b)) \in DOMAIN last.ret.val

\* The number of end-tags in the event stream of s that close a top-level element.
RECURSIVE TopLevelCloses(_, _, _)
TopLevelCloses(s, p, opn) ==
  LET ev == read_event(s, p, opn)
  IN IF ev.kind \in {"Eof", "Error"} THEN 0
     ELSE (IF ev.kind = "End" /\ ev.opened = <<>> THEN 1 ELSE 0)
            + TopLevelCloses(s, ev.pos, ev.opened)

\* The text of the last top-level element of s that closes: from is where
\* the top-level element being read starts, best the last one that closed.
RECURSIVE LastClosedRoot(_, _, _, _, _)
LastClosedRoot(s, p, opn, from, best) ==
  LET ev == read_event(s, p, opn)
  IN IF ev.kind \in {"Eof", "Error"} THEN best
     ELSE IF ev.kind = "Start" /\ opn = <<>>
     THEN LastClosedRoot(s, ev.pos, ev.opened, p, best)
     ELSE IF ev.kind = "End" /\ ev.opened = <<>>
     THEN LastClosedRoot(s, ev.pos, ev.opened, from, SubSeq(s, from, ev.pos - 1))
     ELSE LastClosedRoot(s, ev.pos, ev.opened, from, best)

\* The reader reaches end-of-stream on s without an error.
ReadsToEof(s) == LET kinds == EventKinds(s, 1, <<>>) IN kinds[Len(kinds)] = "Eof"

\* The kinds of the events of s read outside any element, and of the tags
\* that open and close the top-level elements.
RECURSIVE TopLevelKinds(_, _, _)
TopLevelKinds(s, p, opn) ==
  LET ev == read_event(s, p, opn)
  IN IF ev.kind \in {"Eof", "Error"} THEN <<>>
     ELSE (IF opn = <<>> \/ ev.opened = <<>> THEN <<ev.kind>> ELSE <<>>)
            \o TopLevelKinds(s, ev.pos, ev.opened)

\* s is a run of top-level elements with nothing but text between them.
RootsAndText(s) ==
  LET kinds == TopLevelKinds(s, 1, <<>>)
  IN /\ ReadsToEof(s)
     /\ kinds # <<>>
     /\ kinds[1] = "Start"
     /\ kinds[Len(kinds)] = "End"
     /\ \A i \in 1..Len(kinds) : kinds[i] \in {"Start", "End", "Text"}

\* C21: on a stream that closes more than one top-level element parse_string
\* returns Ok with the last top-level element that closed, as parsed on its
\* own: the roots completed before it and the text between top-level
\* elements are in no returned tree, and neither raises an error.
C21_LastRootWins ==
  (pstatus # "running" /\ RootsAndText(input) /\ TopLevelCloses(input, 1, <<>>) >= 2) =>
    /\ pstatus = "returned"
    /\ ret = parse_string(LastClosedRoot(input, 1, <<>>, 1, <<>>)).ret
    /\ ret.val.ok

====
